---- MODULE Spec2Model ----
(***************************************************************************)
(* Recurring sales-target rollover: the CustomerTarget record              *)
(* (models/CustomerTarget, src/models/Customer.js:280-521) and the         *)
(* TargetScheduler service (services/targetScheduler.js,                   *)
(* src/unnamed/part_005).                                                  *)
(*                                                                         *)
(* Time.  A Date is [y, m, d, t]: calendar day y-m-d (m is 1..12) in the   *)
(* server's local zone and t the time of day, 0 for 00:00:00.000 and 1 for *)
(* any later moment of that day.  Every Date the code builds with          *)
(* new Date(year, monthIndex, day) has t = 0; new Date() (now) has t = 1.  *)
(*                                                                         *)
(* Persistence.  find() returns in-memory copies of the stored documents;  *)
(* save() sends the changes made to the copy since it was loaded: a path   *)
(* whose value differs from the loaded one is set, entries pushed on an    *)
(* array are appended to the stored array.  save() either applies all of   *)
(* that or throws and applies nothing; a throw stands for any rejection by *)
(* the storage layer, a version conflict on a replaced array included.     *)
(*                                                                         *)
(* Steps.  An invocation waits on the store at its query and at each save; *)
(* what it does in between touches only its own copies.  A step is the     *)
(* query, or one loop iteration with its save.  The clock moves between    *)
(* invocations, not while one is in flight.                                *)
(*                                                                         *)
(* Timers.  The scheduler's Map holds at most one cron job per name; what  *)
(* is kept of the jobs is whether the map holds one under a name and how   *)
(* many started jobs of that name it holds no more.  A clock point stands  *)
(* for a day, on which a started job whose expression matches fires once.  *)
(*                                                                         *)
(* The achievement feed and the edit of a target amount are not part of    *)
(* the sources modelled here; they are taken from the design document.     *)
(***************************************************************************)
EXTENDS Integers, Sequences, FiniteSets, TLC

VARIABLES clock, store, proc, trigger, feed, sched

vars == <<clock, store, proc, trigger, feed, sched>>

\* ------------------------------------------------------------------ bounds

\* Number of clock points after the first one the model lets time reach.
MaxTick == 5

\* The stored targets and the engine invocations that may be in flight.
Ids == {"A", "B"}
Procs == {1, 2, 3}

\* The clock starts here: the month in which the targets are created.
ClockStart == [y |-> 2023, m |-> 11]

\* ---------------------------------------------------------------- calendar

IsLeap(y) == (y % 4 = 0 /\ y % 100 # 0) \/ y % 400 = 0

DaysInMonth(y, m) ==
  IF m = 2 THEN (IF IsLeap(y) THEN 29 ELSE 28)
  ELSE IF m \in {4, 6, 9, 11} THEN 30 ELSE 31

\* new Date(year, monthIndex, day): monthIndex is 0-based and may run past 11,
\* day 0 is the last day of the month before.  Local midnight.
NewDate(year, monthIndex, day) ==
  LET yy == year + (monthIndex \div 12)
      mm == (monthIndex % 12) + 1
  IN  IF day = 0
      THEN LET py == IF mm = 1 THEN yy - 1 ELSE yy
               pm == IF mm = 1 THEN 12 ELSE mm - 1
           IN  [y |-> py, m |-> pm, d |-> DaysInMonth(py, pm), t |-> 0]
      ELSE [y |-> yy, m |-> mm, d |-> day, t |-> 0]

\* date.setDate(date.getDate() + 1): the next calendar day, same time of day.
AddOneDay(date) ==
  IF date.d < DaysInMonth(date.y, date.m)
  THEN [date EXCEPT !.d = date.d + 1]
  ELSE IF date.m < 12
       THEN [date EXCEPT !.m = date.m + 1, !.d = 1]
       ELSE [date EXCEPT !.y = date.y + 1, !.m = 1, !.d = 1]

DateKey(date) == ((date.y * 100 + date.m) * 100 + date.d) * 2 + date.t

\* a < b on Dates ($lt of the query)
DateLt(a, b) == DateKey(a) < DateKey(b)

\* The clock point number k: day 1 and the last day of each month in turn,
\* starting with the month ClockStart, some time after midnight.
ClockDate(k) ==
  LET mi == (ClockStart.m - 1) + (k \div 2)
      yy == ClockStart.y + (mi \div 12)
      mm == (mi % 12) + 1
  IN  [y |-> yy, m |-> mm,
       d |-> IF k % 2 = 0 THEN 1 ELSE DaysInMonth(yy, mm), t |-> 1]

Now == ClockDate(clock)

\* ------------------------------------------------------- the target record

PeriodKinds == {"monthly", "quarterly", "yearly"}

\* A period label.  fmt "YYYY-MM" with n the month stands for the string
\* `${year}-${month padded to 2}`, "YYYY-Qn" with n the quarter for
\* `${year}-Q${quarter}`, and "YYYY" (n = 0) for `${year}`: two labels are the
\* same string exactly when they are the same record.
Label(fmt, y, n) == [fmt |-> fmt, y |-> y, n |-> n]

\* getPeriodString taking the month index (getMonth() without the + 1) for
\* the monthly label.
getPeriodStringMonthIndex(date, periodType) ==
  LET year  == date.y
      month == date.m
  IN  CASE periodType = "monthly"   -> Label("YYYY-MM", year, month - 1)
        [] periodType = "quarterly" -> Label("YYYY-Qn", year, ((month - 1) \div 3) + 1)
        [] periodType = "yearly"    -> Label("YYYY", year, 0)
        [] OTHER                    -> Label("YYYY-MM", year, month - 1)

\* TargetScheduler.getPeriodString(date, periodType)
getPeriodString(date, periodType) ==
  LET year  == date.y
      month == date.m
  IN  CASE periodType = "monthly"   -> Label("YYYY-MM", year, month)
        [] periodType = "quarterly" -> Label("YYYY-Qn", year, ((month - 1) \div 3) + 1)
        [] periodType = "yearly"    -> Label("YYYY", year, 0)
        [] OTHER                    -> Label("YYYY-MM", year, month)

\* TargetScheduler.getNextPeriodString(currentPeriodEnd, periodType)
getNextPeriodString(currentPeriodEnd, periodType) ==
  getPeriodString(AddOneDay(currentPeriodEnd), periodType)

\* CustomerTargetSchema.methods.getCurrentPeriodString
getCurrentPeriodString(this) ==
  LET year  == this.currentPeriodStart.y
      month == this.currentPeriodStart.m
  IN  CASE this.period = "monthly"   -> Label("YYYY-MM", year, month)
        [] this.period = "quarterly" -> Label("YYYY-Qn", year, ((month - 1) \div 3) + 1)
        [] this.period = "yearly"    -> Label("YYYY", year, 0)
        [] OTHER                     -> Label("YYYY-MM", year, month)

\* historicalPerformance.find((h) => h.period === label) is not undefined
HasPeriod(history, label) ==
  \E k \in 1..Len(history) : history[k].period = label

\* An entry that reads the accumulator as it is after the reset.
HistoryEntryAfterReset(target, label) ==
  [period          |-> label,
   targetAmount    |-> target.targetAmount,
   achievedAmount  |-> 0,
   achievementRate |-> 0]

\* The entry both the engine and startNewPeriod push.
HistoryEntry(target, label) ==
  [period          |-> label,
   targetAmount    |-> target.targetAmount,
   achievedAmount  |-> target.achievedAmount,
   achievementRate |-> target.achievementRate]

\* The new window startNewPeriod computes (Customer.js:467-490).
NewPeriodStart(this) ==
  LET next == AddOneDay(this.currentPeriodEnd)
  IN  CASE this.period = "monthly"   -> NewDate(next.y, next.m - 1, 1)
        [] this.period = "quarterly" -> NewDate(next.y, ((next.m - 1) \div 3) * 3, 1)
        [] this.period = "yearly"    -> NewDate(this.currentPeriodStart.y + 1, 0, 1)

\* The new end taken as day 1, not day 0, of the month after the period.
NewPeriodEndDayOne(this) ==
  LET next == AddOneDay(this.currentPeriodEnd)
  IN  CASE this.period = "monthly"   -> NewDate(next.y, (next.m - 1) + 1, 1)
        [] this.period = "quarterly" -> NewDate(next.y, (((next.m - 1) \div 3) + 1) * 3, 1)
        [] this.period = "yearly"    -> NewDate(this.currentPeriodStart.y + 2, 0, 1)

NewPeriodEnd(this) ==
  LET next == AddOneDay(this.currentPeriodEnd)
  IN  CASE this.period = "monthly"   -> NewDate(next.y, (next.m - 1) + 1, 0)
        [] this.period = "quarterly" -> NewDate(next.y, (((next.m - 1) \div 3) + 1) * 3, 0)
        [] this.period = "yearly"    -> NewDate(this.currentPeriodStart.y + 1, 11, 31)

\* startNewPeriod without its duplicate check: it always pushes an entry.
startNewPeriodAlwaysPushes(this, now) ==
  [this EXCEPT !.historicalPerformance =
                  Append(@, HistoryEntry(this, getCurrentPeriodString(this))),
               !.currentPeriodStart = NewPeriodStart(this),
               !.currentPeriodEnd = NewPeriodEnd(this),
               !.achievedAmount = 0,
               !.achievementRate = 0,
               !.deadline = NewPeriodEnd(this),
               !.orders = <<>>,
               !.transactions = <<>>,
               !.lastRecalculated = now]

\* startNewPeriod resetting the accumulators but leaving the window as it is.
startNewPeriodKeepsWindow(this, now) ==
  [this EXCEPT !.achievedAmount = 0,
               !.achievementRate = 0,
               !.orders = <<>>,
               !.transactions = <<>>,
               !.lastRecalculated = now]

\* startNewPeriod expiring the target and leaving its deadline as it was.
startNewPeriodExpires(this, now) ==
  [this EXCEPT !.historicalPerformance =
                  IF HasPeriod(@, getCurrentPeriodString(this)) THEN @
                  ELSE Append(@, HistoryEntry(this, getCurrentPeriodString(this))),
               !.currentPeriodStart = NewPeriodStart(this),
               !.currentPeriodEnd = NewPeriodEnd(this),
               !.achievedAmount = 0,
               !.achievementRate = 0,
               !.status = "expired",
               !.orders = <<>>,
               !.transactions = <<>>,
               !.lastRecalculated = now]

\* CustomerTargetSchema.methods.startNewPeriod, on the in-memory document.
startNewPeriod(this, now) ==
  LET currentPeriod == getCurrentPeriodString(this)
      history == IF HasPeriod(this.historicalPerformance, currentPeriod)
                 THEN this.historicalPerformance
                 ELSE Append(this.historicalPerformance,
                             HistoryEntry(this, currentPeriod))
      newPeriodStart == NewPeriodStart(this)
      newPeriodEnd   == NewPeriodEnd(this)
  IN  [this EXCEPT !.historicalPerformance = history,
                   !.currentPeriodStart = newPeriodStart,
                   !.currentPeriodEnd = newPeriodEnd,
                   !.achievedAmount = 0,
                   !.achievementRate = 0,
                   !.deadline = newPeriodEnd,
                   !.orders = <<>>,
                   !.transactions = <<>>,
                   !.lastRecalculated = now]

\* achievedAmount / targetAmount * 100.  The amounts of the model are chosen
\* so that the quotient is a whole number.
Rate(achievedAmount, targetAmount) == (achievedAmount * 100) \div targetAmount

\* CustomerTargetSchema.pre("save")
preSave(this) ==
  IF this.targetAmount > 0
  THEN [this EXCEPT !.achievementRate = Rate(this.achievedAmount, this.targetAmount)]
  ELSE this

\* What a successful document.save() leaves in the store: `loaded` is the
\* document as find() returned it, `doc` the in-memory document after its
\* changes and the pre-save hook, `stored` the record in the store now.
SetIfModified(stored, loaded, doc) ==
  [f \in DOMAIN stored |->
     IF f = "historicalPerformance"
     THEN stored[f] \o SubSeq(doc[f], Len(loaded[f]) + 1, Len(doc[f]))
     ELSE IF doc[f] # loaded[f] THEN doc[f] ELSE stored[f]]

\* A save that writes the whole in-memory document over the stored one.
SaveWholeDocument(stored, loaded, doc) == preSave(doc)

Save(stored, loaded, doc) == SetIfModified(stored, loaded, preSave(doc))

\* ------------------------------------------------------ creating targets

\* The window the schema defaults give a target created at `now`, whatever
\* its period kind: the calendar month of `now` (Customer.js:311-333).
DefaultPeriodStart(now) == NewDate(now.y, now.m - 1, 1)
DefaultPeriodEnd(now) == NewDate(now.y, (now.m - 1) + 1, 0)

\* periodWindow(referenceDate, periodKind) of the Period Calculator, for a
\* target whose creator passes the window explicitly: first day of the
\* month/quarter/year at 00:00 to its last day at 23:59:59.999 (t = 2).
PeriodWindowStart(ref, kind) ==
  CASE kind = "monthly"   -> NewDate(ref.y, ref.m - 1, 1)
    [] kind = "quarterly" -> NewDate(ref.y, ((ref.m - 1) \div 3) * 3, 1)
    [] kind = "yearly"    -> NewDate(ref.y, 0, 1)

PeriodWindowEnd(ref, kind) ==
  LET last == CASE kind = "monthly"   -> NewDate(ref.y, ref.m, 0)
                [] kind = "quarterly" -> NewDate(ref.y, (((ref.m - 1) \div 3) + 1) * 3, 0)
                [] kind = "yearly"    -> NewDate(ref.y, 11, 31)
  IN  [last EXCEPT !.t = 2]

\* A new CustomerTarget document (the schema, Customer.js:282-425) for a
\* target of 5000 with 4000 achieved and one attributed order and invoice.
NewTarget(id, kind, window, now) ==
  LET start == IF window = "default" THEN DefaultPeriodStart(now)
               ELSE PeriodWindowStart(now, kind)
      end   == IF window = "default" THEN DefaultPeriodEnd(now)
               ELSE PeriodWindowEnd(now, kind)
  IN  [_id                   |-> id,
       cardCode              |-> id,
       cardName              |-> "customer",
       period                |-> kind,
       isRecurring           |-> TRUE,
       status                |-> "active",
       currentPeriodStart    |-> start,
       currentPeriodEnd      |-> end,
       deadline              |-> end,
       targetAmount          |-> 5000,
       achievedAmount        |-> 4000,
       achievementRate       |-> Rate(4000, 5000),
       orders                |-> <<101>>,
       transactions          |-> <<101>>,
       salesAgent            |-> "agent",
       lastRecalculated      |-> now,
       historicalPerformance |-> <<>>]

\* The targets are created at the first clock point.
Plain(id, k, w) == NewTarget(id, k, w, ClockDate(0))

\* Target A is the plain target (recurring, active, 5000/4000, its agent
\* found) of any kind and window, or differs from it in one respect; target B
\* is a plain target of any kind with the schema's default window and no
\* attributed orders, or a non-recurring monthly one.
InitialTargets(id) ==
  IF id = "A"
  THEN UNION { { Plain(id, k, w),
                 [Plain(id, k, w) EXCEPT !.isRecurring = FALSE],
                 [Plain(id, k, w) EXCEPT !.status = "paused"],
                 [Plain(id, k, w) EXCEPT !.salesAgent = "null"],
                 [Plain(id, k, w) EXCEPT !.targetAmount = 0, !.achievedAmount = 0,
                                         !.achievementRate = 0, !.orders = <<>>,
                                         !.transactions = <<>>] } :
               k \in PeriodKinds, w \in {"default", "calculator"} }
  ELSE { [Plain(id, k, "default") EXCEPT !.orders = <<>>, !.transactions = <<>>] :
           k \in PeriodKinds }
       \cup { [Plain(id, "monthly", "default") EXCEPT !.isRecurring = FALSE] }

\* For overlapping invocations: A is a plain target with no attributed orders,
\* B a non-recurring one.
OverlapTargets(id) ==
  IF id = "A"
  THEN { [Plain(id, k, w) EXCEPT !.orders = <<>>, !.transactions = <<>>] :
           k \in PeriodKinds, w \in {"default", "calculator"} }
  ELSE { [Plain(id, "monthly", "default") EXCEPT !.isRecurring = FALSE] }

\* ------------------------------------------------------------- the engine

\* find() returns the matching documents in the store's order.
IdOrder == <<"A", "B">>

\* The query without its currentPeriodEnd condition.
IsDueRecurringAnyEnd(t, periodType, now) ==
  /\ t.isRecurring = TRUE
  /\ t.status = "active"
  /\ t.period = periodType

\* The query without its status condition.
IsDueRecurringAnyStatus(t, periodType, now) ==
  /\ t.isRecurring = TRUE
  /\ t.period = periodType
  /\ DateLt(t.currentPeriodEnd, now)

\* The query of rolloverTargetsByPeriod without its isRecurring condition.
IsDueRecurringAnyRecurrence(t, periodType, now) ==
  /\ t.status = "active"
  /\ t.period = periodType
  /\ DateLt(t.currentPeriodEnd, now)

IsDueRecurring(t, periodType, now) ==
  /\ t.isRecurring = TRUE
  /\ t.status = "active"
  /\ t.period = periodType
  /\ DateLt(t.currentPeriodEnd, now)

\* The query of updateExpiredTargets without its isRecurring condition.
IsDueNonRecurringAnyRecurrence(t, now) ==
  /\ t.status = "active"
  /\ DateLt(t.currentPeriodEnd, now)

IsDueNonRecurring(t, now) ==
  /\ t.status = "active"
  /\ DateLt(t.currentPeriodEnd, now)
  /\ t.isRecurring = FALSE

\* CustomerTarget.find({isRecurring, status, period, currentPeriodEnd: {$lt: now}})
TargetsToRollover(periodType, now) ==
  LET due(id) == IsDueRecurring(store[id], periodType, now)
      ids == SelectSeq(IdOrder, due)
  IN  [k \in 1..Len(ids) |-> store[ids[k]]]

\* CustomerTarget.find({status, currentPeriodEnd: {$lt: now}, isRecurring: false})
ExpiredTargets(now) ==
  LET due(id) == IsDueNonRecurring(store[id], now)
      ids == SelectSeq(IdOrder, due)
  IN  [k \in 1..Len(ids) |-> store[ids[k]]]

\* The loop body without the check of the next period.
NoNextPeriodCheck(target, periodType) == FALSE

\* nextPeriodAlreadyExists of the loop body (part_005:309-313)
NextPeriodAlreadyExists(target, periodType) ==
  HasPeriod(target.historicalPerformance,
            getNextPeriodString(target.currentPeriodEnd, periodType))

\* The loop body's push without its check of the existing entry.
PushHistoryUnguarded(target, periodType) ==
  [target EXCEPT !.historicalPerformance =
     Append(@, HistoryEntry(target, getPeriodString(target.currentPeriodStart, periodType)))]

\* The loop body's push (part_005:298-329): the in-memory document with the
\* current period archived unless its label is already in the history.
PushHistory(target, periodType) ==
  LET currentPeriod == getPeriodString(target.currentPeriodStart, periodType)
  IN  IF HasPeriod(target.historicalPerformance, currentPeriod)
      THEN target
      ELSE [target EXCEPT !.historicalPerformance =
              Append(@, HistoryEntry(target, currentPeriod))]

\* The in-memory document handed to save() (part_005:321-333).
RolledOver(target, periodType, now) ==
  startNewPeriod(PushHistory(target, periodType), now)

\* The log line after the save reads target.salesAgent.firstName: a TypeError
\* when populate() found no user (part_005:336-338).
LogThrows(target) == target.salesAgent = "null"

IdleProc ==
  [pc |-> "idle", periodType |-> "none", now |-> ClockDate(0), docs |-> <<>>,
   i |-> 1, rolledOverCount |-> 0, errorCount |-> 0, skippedCount |-> 0,
   updatedCount |-> 0, log |-> <<>>,
   result |-> [kind |-> "none", success |-> FALSE, totalFound |-> 0,
               rolledOver |-> 0, skipped |-> 0, errors |-> 0, updatedCount |-> 0]]

\* The state of an invocation that has its query result.
Started(pc, periodType, now, docs) ==
  [IdleProc EXCEPT !.pc = pc, !.periodType = periodType, !.now = now,
                   !.docs = docs]

\* An invocation without the outer catch: its promise rejects.
FailedRejects(p) == [p EXCEPT !.pc = "rejected"]

\* The outer catch: {success: false, error} (part_005:354-360, 390-396)
Failed(p) ==
  [p EXCEPT !.pc = "done",
            !.result = [IdleProc.result EXCEPT !.kind = "failed"]]

Event(target, what) == [id |-> target._id, event |-> what]

\* No call of the achievement feed or of an administrative edit made yet.
NoFeed == [calls |-> 0, outcome |-> "none"]

\* The names under which the four cron jobs are kept in scheduledJobs.
TimerNames == {"monthly-rollover", "quarterly-rollover", "yearly-rollover", "daily-check"}

\* No cron job has fired at this clock point: neither the job the map holds
\* under a name nor any of the started jobs the map holds no more.
NoneFired == [map |-> {}, orphans |-> [n \in TimerNames |-> 0]]

\* new TargetScheduler(): scheduledJobs = new Map(), no cron job created.
\* scheduledJobs[n] says that the map holds a (started) job under n; orphans[n]
\* counts the started jobs of that name whose map entry a later
\* scheduledJobs.set replaced.
NewScheduler ==
  [scheduledJobs |-> [n \in TimerNames |-> FALSE],
   orphans |-> [n \in TimerNames |-> 0],
   fired |-> NoneFired,
   inits |-> 0, last |-> [op |-> "none", threw |-> "none"]]

Idle ==
  /\ clock = 0
  /\ proc = [p \in Procs |-> IdleProc]
  /\ trigger = "idle"
  /\ feed = NoFeed
  /\ sched = NewScheduler

Init ==
  /\ Idle
  /\ store \in [Ids -> UNION { InitialTargets(id) : id \in Ids }]
  /\ \A id \in Ids : store[id] \in InitialTargets(id)

InitOverlap ==
  /\ Idle
  /\ store \in [Ids -> UNION { OverlapTargets(id) : id \in Ids }]
  /\ \A id \in Ids : store[id] \in OverlapTargets(id)

\* Time passes to the next clock point while no invocation is in flight.
Tick ==
  /\ clock < MaxTick
  /\ \A p \in Procs : proc[p].pc = "idle"
  /\ clock' = clock + 1
  /\ sched' = [sched EXCEPT !.fired = NoneFired]
  /\ UNCHANGED <<store, proc, trigger, feed>>

\* rolloverTargetsByPeriod(periodType) up to the result of its query.
RolloverTargetsByPeriod(p, periodType) ==
  /\ trigger = "idle"
  /\ proc[p].pc = "idle"
  /\ \/ proc' = [proc EXCEPT ![p] =
                   Started("rollover", periodType, Now, TargetsToRollover(periodType, Now))]
     \/ proc' = [proc EXCEPT ![p] = Failed(Started("rollover", periodType, Now, <<>>))]
  /\ UNCHANGED <<clock, store, trigger, feed, sched>>

\* The invocation after `continue` in the Guard B branch (part_005:315-319).
Skipped(me, target) ==
  [me EXCEPT !.skippedCount = @ + 1,
             !.log = Append(@, Event(target, "skipped")),
             !.i = @ + 1]

\* The invocation after a save that succeeded (part_005:335-338): the count,
\* then the log line, whose TypeError lands in the catch of the iteration.
Saved(me, target) ==
  IF LogThrows(target)
  THEN [me EXCEPT !.rolledOverCount = @ + 1,
                  !.errorCount = @ + 1,
                  !.log = Append(@, Event(target, "typeError")),
                  !.i = @ + 1]
  ELSE [me EXCEPT !.rolledOverCount = @ + 1,
                  !.log = Append(@, Event(target, "rolledOver")),
                  !.i = @ + 1]

\* A failed save that leaves the loop, as in updateExpiredTargets.
SaveFailedAborts(me, target) ==
  [me EXCEPT !.pc = "done",
             !.log = Append(@, Event(target, "saveError")),
             !.result = [me.result EXCEPT !.kind = "failed"]]

\* The invocation after a save that threw (part_005:339-342).
SaveFailed(me, target) ==
  [me EXCEPT !.errorCount = @ + 1,
             !.log = Append(@, Event(target, "saveError")),
             !.i = @ + 1]

\* One iteration of the for loop of rolloverTargetsByPeriod, save included.
RolloverStep(p) ==
  LET me     == proc[p]
      target == me.docs[me.i]
      doc    == RolledOver(target, me.periodType, Now)
  IN  /\ me.pc = "rollover"
      /\ me.i <= Len(me.docs)
      /\ \/ /\ NextPeriodAlreadyExists(target, me.periodType)
            /\ proc' = [proc EXCEPT ![p] = Skipped(me, target)]
            /\ UNCHANGED store
         \/ /\ ~NextPeriodAlreadyExists(target, me.periodType)
            /\ store' = [store EXCEPT ![target._id] = Save(@, target, doc)]
            /\ proc' = [proc EXCEPT ![p] = Saved(me, target)]
         \/ /\ ~NextPeriodAlreadyExists(target, me.periodType)
            /\ proc' = [proc EXCEPT ![p] = SaveFailed(me, target)]
            /\ UNCHANGED store
      /\ UNCHANGED <<clock, trigger, feed, sched>>

\* The return after the loop (part_005:345-353).
RolloverReturn(p) ==
  LET me == proc[p]
  IN  /\ me.pc = "rollover"
      /\ me.i > Len(me.docs)
      /\ proc' = [proc EXCEPT ![p].pc = "done",
                    ![p].result = [kind |-> "rollover", success |-> TRUE,
                                   totalFound |-> Len(me.docs),
                                   rolledOver |-> me.rolledOverCount,
                                   skipped |-> me.skippedCount,
                                   errors |-> me.errorCount,
                                   updatedCount |-> 0]]
      /\ UNCHANGED <<clock, store, trigger, feed, sched>>

\* updateExpiredTargets() up to the result of its query.
UpdateExpiredTargets(p) ==
  /\ trigger = "idle"
  /\ proc[p].pc = "idle"
  /\ \/ proc' = [proc EXCEPT ![p] = Started("expire", "none", Now, ExpiredTargets(Now))]
     \/ proc' = [proc EXCEPT ![p] = Failed(Started("expire", "none", Now, <<>>))]
  /\ UNCHANGED <<clock, store, trigger, feed, sched>>

\* The loop of updateExpiredTargets with a catch of its own around each
\* target, as the rollover loop has: a failing save is logged and the loop
\* goes on.
ExpireStepContinues(p) ==
  LET me     == proc[p]
      target == me.docs[me.i]
      doc    == [target EXCEPT !.status = "expired"]
  IN  /\ me.pc = "expire"
      /\ me.i <= Len(me.docs)
      /\ \/ /\ store' = [store EXCEPT ![target._id] = Save(@, target, doc)]
            /\ proc' = [proc EXCEPT ![p].updatedCount = @ + 1,
                                    ![p].log = Append(@, Event(target, "expired")),
                                    ![p].i = @ + 1]
         \/ /\ proc' = [proc EXCEPT ![p].log = Append(@, Event(target, "saveError")),
                                    ![p].i = @ + 1]
            /\ UNCHANGED store
      /\ UNCHANGED <<clock, trigger, feed, sched>>

\* One iteration of the for loop of updateExpiredTargets: a failing save
\* leaves the loop for the outer catch.
ExpireStep(p) ==
  LET me     == proc[p]
      target == me.docs[me.i]
      doc    == [target EXCEPT !.status = "expired"]
  IN  /\ me.pc = "expire"
      /\ me.i <= Len(me.docs)
      /\ \/ /\ store' = [store EXCEPT ![target._id] = Save(@, target, doc)]
            /\ proc' = [proc EXCEPT ![p].updatedCount = @ + 1,
                                    ![p].log = Append(@, Event(target, "expired")),
                                    ![p].i = @ + 1]
         \/ /\ proc' = [proc EXCEPT ![p] =
                          Failed([me EXCEPT !.log = Append(@, Event(target, "saveError"))])]
            /\ UNCHANGED store
      /\ UNCHANGED <<clock, trigger, feed, sched>>

ExpireReturn(p) ==
  LET me == proc[p]
  IN  /\ me.pc = "expire"
      /\ me.i > Len(me.docs)
      /\ proc' = [proc EXCEPT ![p].pc = "done",
                    ![p].result = [IdleProc.result EXCEPT !.kind = "expire",
                                     !.success = TRUE,
                                     !.updatedCount = me.updatedCount]]
      /\ UNCHANGED <<clock, store, trigger, feed, sched>>

\* The caller of a single invocation has its result.
Complete(p) ==
  /\ trigger = "idle"
  /\ proc[p].pc = "done"
  /\ proc' = [proc EXCEPT ![p] = IdleProc]
  /\ UNCHANGED <<clock, store, trigger, feed, sched>>

\* triggerImmediateRollover(): Promise.all over the three calls, each of which
\* runs to its query before the next is made.
TriggerKind(p) == CASE p = 1 -> "monthly" [] p = 2 -> "quarterly" [] p = 3 -> "yearly"

TriggerImmediateRollover ==
  /\ trigger = "idle"
  /\ \A p \in Procs : proc[p].pc = "idle"
  /\ \E failing \in SUBSET {1, 2, 3} :
       proc' = [p \in Procs |->
                  IF p \in failing
                  THEN Failed(Started("rollover", TriggerKind(p), Now, <<>>))
                  ELSE Started("rollover", TriggerKind(p), Now,
                               TargetsToRollover(TriggerKind(p), Now))]
  /\ trigger' = "running"
  /\ UNCHANGED <<clock, store, feed, sched>>

\* Promise.all resolves once the three calls have returned.
TriggerReturn ==
  /\ trigger = "running"
  /\ \A p \in Procs : proc[p].pc = "done"
  /\ proc' = [p \in Procs |-> IdleProc]
  /\ trigger' = "idle"
  /\ UNCHANGED <<clock, store, feed, sched>>

Step(p) ==
  \/ RolloverStep(p)
  \/ RolloverReturn(p)
  \/ ExpireStep(p)
  \/ ExpireReturn(p)
  \/ Complete(p)

\* Invocations run one after another: a call is made only when no other is
\* in flight (the three calls of triggerImmediateRollover are one call).
NoneInFlight == \A p \in Procs : proc[p].pc = "idle"

Next ==
  \/ Tick
  \/ \E k \in PeriodKinds : NoneInFlight /\ RolloverTargetsByPeriod(1, k)
  \/ NoneInFlight /\ UpdateExpiredTargets(1)
  \/ \E p \in Procs : Step(p)
  \/ TriggerImmediateRollover
  \/ TriggerReturn

Spec == Init /\ [][Next]_vars

\* Invocations may overlap: a manual call racing a cron firing.  A new call
\* takes the first free slot of Overlapping.
Overlapping == {1, 2}

FirstFree(p) ==
  /\ p \in Overlapping
  /\ proc[p].pc = "idle"
  /\ \A q \in Overlapping : q < p => proc[q].pc # "idle"

NextOverlap ==
  \/ Tick
  \/ \E p \in Procs, k \in PeriodKinds : FirstFree(p) /\ RolloverTargetsByPeriod(p, k)
  \/ \E p \in Procs : FirstFree(p) /\ UpdateExpiredTargets(p)
  \/ \E p \in Procs : Step(p)

SpecOverlap == InitOverlap /\ [][NextOverlap]_vars

\* ------------------------------------------- the feed and the target amount

\* How many calls of recordAchievement and edits of targetAmount a run makes.
MaxFeedCalls == 2

\* The amounts the achievement feed reports, and the target amounts an
\* administrator sets (targetAmount has min 0, Customer.js:294-298).
FeedAmounts == {-10, 1000}
TargetAmounts == {0, 5000}

\* recordAchievement(amount): a negative amount is rejected with
\* InvalidAmount; otherwise the amount is added, lastRecalculated is set and
\* the target is saved, the pre-save hook recomputing the rate.
RecordAchievement(id, amount) ==
  LET loaded == store[id]
      doc    == [loaded EXCEPT !.achievedAmount = @ + amount,
                               !.lastRecalculated = Now]
  IN  /\ feed.calls < MaxFeedCalls
      /\ \/ /\ amount < 0
            /\ feed' = [calls |-> feed.calls + 1, outcome |-> "InvalidAmount"]
            /\ UNCHANGED store
         \/ /\ amount >= 0
            /\ store' = [store EXCEPT ![id] = Save(@, loaded, doc)]
            /\ feed' = [calls |-> feed.calls + 1, outcome |-> "ok"]
         \/ /\ amount >= 0
            /\ feed' = [calls |-> feed.calls + 1, outcome |-> "PersistenceError"]
            /\ UNCHANGED store
      /\ UNCHANGED <<clock, proc, trigger, sched>>

\* An administrator's edit of the target amount: the field is assigned and
\* the target saved, through the same pre-save hook.
SetTargetAmount(id, amount) ==
  LET loaded == store[id]
      doc    == [loaded EXCEPT !.targetAmount = amount]
  IN  /\ feed.calls < MaxFeedCalls
      /\ amount # loaded.targetAmount
      /\ store' = [store EXCEPT ![id] = Save(@, loaded, doc)]
      /\ feed' = [calls |-> feed.calls + 1, outcome |-> "edited"]
      /\ UNCHANGED <<clock, proc, trigger, sched>>

\* Engine invocations one after another, with the feed and the edits at any
\* moment between their steps.
NextFeed ==
  \/ Tick
  \/ \E k \in PeriodKinds : NoneInFlight /\ RolloverTargetsByPeriod(1, k)
  \/ NoneInFlight /\ UpdateExpiredTargets(1)
  \/ \E p \in Procs : Step(p)
  \/ \E id \in Ids, amount \in FeedAmounts : RecordAchievement(id, amount)
  \/ \E id \in Ids, amount \in TargetAmounts : SetTargetAmount(id, amount)

SpecFeed == InitOverlap /\ [][NextFeed]_vars

\* ------------------------------------------------------------ the scheduler

\* How many times initializeScheduler is called in a run.
MaxInits == 2

\* The order in which initializeScheduler registers the timers.
TimerOrder == <<"monthly-rollover", "quarterly-rollover", "yearly-rollover", "daily-check">>

\* What the callback of a timer calls: rolloverTargetsByPeriod of a kind, or
\* ("none") updateExpiredTargets.
TimerKind(name) ==
  CASE name = "monthly-rollover"   -> "monthly"
    [] name = "quarterly-rollover" -> "quarterly"
    [] name = "yearly-rollover"    -> "yearly"
    [] name = "daily-check"        -> "none"

\* The cron expressions: "1 0 1 * *", "5 0 1 1,4,7,10 *", "10 0 1 1 *" and
\* "0 1 * * *" on the day of `date`.
CronDue(name, date) ==
  CASE name = "monthly-rollover"   -> date.d = 1
    [] name = "quarterly-rollover" -> date.d = 1 /\ date.m \in {1, 4, 7, 10}
    [] name = "yearly-rollover"    -> date.d = 1 /\ date.m = 1
    [] name = "daily-check"        -> TRUE

\* One schedule* method: cron.schedule(expr, callback, {scheduled: false}),
\* scheduledJobs.set(name, job), job.start().  A job the map held under the
\* name stays started and is referenced no more.
Schedule(s, name) ==
  IF s.scheduledJobs[name]
  THEN [s EXCEPT !.orphans[name] = @ + 1,
                 !.fired = IF name \in s.fired.map
                           THEN [map |-> s.fired.map \ {name},
                                 orphans |-> [s.fired.orphans EXCEPT ![name] = @ + 1]]
                           ELSE s.fired]
  ELSE [s EXCEPT !.scheduledJobs[name] = TRUE]

\* The scheduler after the first k schedule* calls of initializeScheduler.
RECURSIVE ScheduleFirst(_, _)
ScheduleFirst(s, k) ==
  IF k = 0 THEN s ELSE Schedule(ScheduleFirst(s, k - 1), TimerOrder[k])

\* initializeScheduler(): the four schedule* calls in a row, with no catch of
\* its own: when the call for timer k + 1 throws (cron.schedule rejecting its
\* arguments), the exception leaves the method, to the catch of the server's
\* start-up, and the calls after it are not made.
InitializeScheduler ==
  /\ sched.last.op # "exit"
  /\ sched.inits < MaxInits
  /\ \E k \in 0..Len(TimerOrder) :
       sched' = [ScheduleFirst(sched, k) EXCEPT
                   !.inits = @ + 1,
                   !.last = [op |-> "init",
                             threw |-> IF k = Len(TimerOrder) THEN "none"
                                       ELSE TimerOrder[k + 1]]]
  /\ UNCHANGED <<clock, store, proc, trigger, feed>>

\* The scheduler after stopScheduler(): job.stop() on each job in the map,
\* then scheduledJobs.clear().
Stopped(s) ==
  [s EXCEPT !.scheduledJobs = [n \in TimerNames |-> FALSE],
            !.fired = [map |-> {}, orphans |-> s.fired.orphans],
            !.last = [op |-> "stop", threw |-> "none"]]

StopScheduler ==
  /\ sched.last.op # "exit"
  /\ sched' = Stopped(sched)
  /\ UNCHANGED <<clock, store, proc, trigger, feed>>

\* A started job of the name is due and has not fired at this clock point:
\* the one in the map, or one the map holds no more.
CanFire(name, inMap) ==
  /\ CronDue(name, Now)
  /\ IF inMap
     THEN sched.scheduledJobs[name] /\ name \notin sched.fired.map
     ELSE sched.fired.orphans[name] < sched.orphans[name]

\* A cron job's firing: its callback calls the engine, which runs to the
\* result of its query.  A job fires once at a clock point.
Fire(name, inMap, p) ==
  LET kind == TimerKind(name)
  IN  /\ sched.last.op # "exit"
      /\ CanFire(name, inMap)
      /\ FirstFree(p)
      /\ \/ /\ kind # "none"
            /\ proc' = [proc EXCEPT ![p] =
                          Started("rollover", kind, Now, TargetsToRollover(kind, Now))]
         \/ /\ kind # "none"
            /\ proc' = [proc EXCEPT ![p] = Failed(Started("rollover", kind, Now, <<>>))]
         \/ /\ kind = "none"
            /\ proc' = [proc EXCEPT ![p] =
                          Started("expire", "none", Now, ExpiredTargets(Now))]
         \/ /\ kind = "none"
            /\ proc' = [proc EXCEPT ![p] = Failed(Started("expire", "none", Now, <<>>))]
      /\ sched' = [sched EXCEPT !.fired =
                     IF inMap
                     THEN [map |-> @.map \cup {name}, orphans |-> @.orphans]
                     ELSE [map |-> @.map,
                           orphans |-> [@.orphans EXCEPT ![name] = @ + 1]]]
      /\ UNCHANGED <<clock, store, trigger, feed>>

\* The invocation waits for the save of its current target.
HasPendingSave(p) ==
  LET me == proc[p]
  IN  /\ me.pc \in {"rollover", "expire"}
      /\ me.i <= Len(me.docs)
      /\ me.pc = "rollover" => ~NextPeriodAlreadyExists(me.docs[me.i], me.periodType)

\* The in-memory document that save was called on.
PendingDoc(p) ==
  LET me == proc[p]
  IN  IF me.pc = "rollover"
      THEN RolledOver(me.docs[me.i], me.periodType, Now)
      ELSE [me.docs[me.i] EXCEPT !.status = "expired"]

\* The store once the pending save of p has reached it, if p is in `landed`.
Landed(st, p, landed) ==
  IF p \in landed
  THEN [st EXCEPT ![proc[p].docs[proc[p].i]._id] =
                    Save(@, proc[p].docs[proc[p].i], PendingDoc(p))]
  ELSE st

\* The SIGTERM / SIGINT handler: stopScheduler(), then process.exit(0).  The
\* process ends with its invocations where they are; a save one of them
\* waits for has reached the store or has not.
Shutdown ==
  /\ sched.last.op # "exit"
  /\ sched' = [Stopped(sched) EXCEPT !.last = [op |-> "exit", threw |-> "none"]]
  /\ \E landed \in SUBSET { p \in Procs : HasPendingSave(p) } :
       store' = Landed(Landed(Landed(store, 1, landed), 2, landed), 3, landed)
  /\ proc' = [p \in Procs |->
                IF proc[p].pc = "idle" THEN proc[p]
                ELSE [proc[p] EXCEPT !.pc = "killed"]]
  /\ UNCHANGED <<clock, trigger, feed>>

\* The server: the scheduler's timers firing, initializeScheduler and
\* stopScheduler called, and the shutdown signals.  The callbacks run one
\* after another (the cron expressions set them minutes apart) and
\* initializeScheduler is called between them; stopScheduler and the signals
\* come at any moment.
NextScheduler ==
  \/ Tick
  \/ NoneInFlight /\ InitializeScheduler
  \/ StopScheduler
  \/ Shutdown
  \/ \E name \in TimerNames, inMap \in BOOLEAN : NoneInFlight /\ Fire(name, inMap, 1)
  \/ \E p \in Procs : Step(p)

\* The server starts with a recurring monthly target, with the schema's
\* default window or the calculator's, and a non-recurring one; its
\* scheduler is not initialized.
InitScheduler ==
  /\ Idle
  /\ store \in [Ids -> UNION { OverlapTargets(id) : id \in Ids }]
  /\ \A id \in Ids : store[id] \in OverlapTargets(id)
  /\ store["A"].period = "monthly"

SpecScheduler == InitScheduler /\ [][NextScheduler]_vars

\* ------------------------------------------------------------------ claims

History(id) == store[id].historicalPerformance

\* How many entries of `history` carry `label`.
CountPeriod(history, label) ==
  Cardinality({k \in 1..Len(history) : history[k].period = label})

\* C1: with invocations of rolloverTargetsByPeriod, triggerImmediateRollover
\* and updateExpiredTargets run one after another, at any clock point and
\* with saves failing at will, no target's historicalPerformance holds two
\* entries with the same period label.
C1_HistoryUnique ==
  \A id \in Ids :
    \A i, j \in 1..Len(History(id)) :
      i # j => History(id)[i].period # History(id)[j].period

\* A target rolled over twice by now, after a save of it had failed.
C1_Witness ==
  /\ Len(History("B")) >= 2
  /\ \E p \in Procs : \E k \in 1..Len(proc[p].log) :
       proc[p].log[k] = [id |-> "A", event |-> "saveError"]

\* C2: when two invocations of rolloverTargetsByPeriod(K) both read the same
\* due target before either saves it and both save it, the stored target has
\* exactly one history entry for the ended period and its window is the one
\* that follows the window they read.
C2_ConcurrentRolloverSafe ==
  \A p, q \in Procs :
    \A k \in 1..Len(proc[p].docs), l \in 1..Len(proc[q].docs) :
      ( /\ p # q
        /\ proc[p].periodType \in PeriodKinds
        /\ proc[p].periodType = proc[q].periodType
        /\ proc[p].docs[k] = proc[q].docs[l]
        /\ k < proc[p].i
        /\ l < proc[q].i
        /\ proc[p].log[k].event = "rolledOver"
        /\ proc[q].log[l].event = "rolledOver" )
      => LET read == proc[p].docs[k]
             now  == store[read._id]
         IN  /\ CountPeriod(now.historicalPerformance, getCurrentPeriodString(read)) = 1
             /\ now.currentPeriodStart = NewPeriodStart(read)
             /\ now.currentPeriodEnd = NewPeriodEnd(read)

\* What one call of rolloverTargetsByPeriod(periodType) at `now`, its saves
\* succeeding, leaves of the stored target t.
AfterCall(t, periodType, now) ==
  IF IsDueRecurring(t, periodType, now) /\ ~NextPeriodAlreadyExists(t, periodType)
  THEN Save(t, t, RolledOver(t, periodType, now))
  ELSE t

AfterTwoCalls(t, periodType, now) ==
  AfterCall(AfterCall(t, periodType, now), periodType, now)

PeriodFirstMonth(m, kind) ==
  CASE kind = "monthly" -> m
    [] kind = "quarterly" -> m - ((m - 1) % 3)
    [] kind = "yearly" -> 1

PeriodLastMonth(m, kind) ==
  CASE kind = "monthly" -> m
    [] kind = "quarterly" -> PeriodFirstMonth(m, kind) + 2
    [] kind = "yearly" -> 12

SameDay(a, b) == a.y = b.y /\ a.m = b.m /\ a.d = b.d

\* The window of t is one calendar month, quarter or year, by its kind.
CalendarAligned(t) ==
  LET start == t.currentPeriodStart
      end   == t.currentPeriodEnd
  IN  /\ start.d = 1
      /\ start.m = PeriodFirstMonth(start.m, t.period)
      /\ end.y = start.y
      /\ end.m = PeriodLastMonth(start.m, t.period)
      /\ end.d = DaysInMonth(end.y, end.m)

WindowChanges(id) ==
  \/ store'[id].currentPeriodStart # store[id].currentPeriodStart
  \/ store'[id].currentPeriodEnd # store[id].currentPeriodEnd

\* C4: a rollover of a target whose window is calendar-aligned for its kind
\* installs the calendar period that follows: the new currentPeriodStart is
\* the day after the old currentPeriodEnd and the new window is again one
\* calendar month, quarter or year, whatever now is.
C4_NoDrift ==
  [][ \A id \in Ids :
        (WindowChanges(id) /\ CalendarAligned(store[id]))
        => /\ SameDay(store'[id].currentPeriodStart,
                      AddOneDay(store[id].currentPeriodEnd))
           /\ CalendarAligned(store'[id]) ]_vars

\* A quarterly target created with the window 2023-10-01..2023-12-31 and
\* rolled over late, on 2024-01-31, to 2024-01-01..2024-03-31.
C4_Witness ==
  /\ store["A"].period = "quarterly"
  /\ store["A"].currentPeriodStart = [y |-> 2024, m |-> 1, d |-> 1, t |-> 0]
  /\ store["A"].currentPeriodEnd = [y |-> 2024, m |-> 3, d |-> 31, t |-> 0]
  /\ Len(History("A")) = 1
  /\ store["A"].lastRecalculated = [y |-> 2024, m |-> 1, d |-> 31, t |-> 1]

\* now lies on a later calendar day than `date`.
AfterDayOf(now, date) == DateKey([now EXCEPT !.t = 0]) > DateKey([date EXCEPT !.t = 0])

\* C5: rolloverTargetsByPeriod archives and advances a target only when now
\* is past the last calendar day of the target's current period; a call made
\* during that last day leaves the target as it is.
C5_OnlyAfterPeriodElapsed ==
  [][ \A id \in Ids :
        WindowChanges(id) => AfterDayOf(Now, store[id].currentPeriodEnd) ]_vars

\* The invocation p is in its loop and its next step handles this document.
Current(p) == proc[p].docs[proc[p].i]

InLoop(p) == proc[p].pc = "rollover" /\ proc[p].i <= Len(proc[p].docs)

\* p's step is a rollover that was saved.
RolloverSaved(p) ==
  InLoop(p) /\ proc'[p].rolledOverCount = proc[p].rolledOverCount + 1

LastEntry(history) == history[Len(history)]

\* C6: after a target is rolled over and saved, its stored achievedAmount
\* and achievementRate are 0 and its orders and transactions are empty, and
\* the history entry that rollover created holds the targetAmount,
\* achievedAmount and achievementRate stored just before.
C6_ResetWithSnapshot ==
  [][ \A p \in Procs :
        RolloverSaved(p)
        => LET old == store[Current(p)._id]
               new == store'[Current(p)._id]
           IN  /\ new.achievedAmount = 0
               /\ new.achievementRate = 0
               /\ new.orders = <<>>
               /\ new.transactions = <<>>
               /\ Len(new.historicalPerformance) > Len(old.historicalPerformance)
                  => /\ Len(new.historicalPerformance) = Len(old.historicalPerformance) + 1
                     /\ LastEntry(new.historicalPerformance).targetAmount = old.targetAmount
                     /\ LastEntry(new.historicalPerformance).achievedAmount = old.achievedAmount
                     /\ LastEntry(new.historicalPerformance).achievementRate = old.achievementRate ]_vars

\* Target A, created with 5000 / 4000 / 80 and one attributed order, after
\* its first rollover.
C6_Witness ==
  /\ History("A") = << [period |-> Label("YYYY-MM", 2023, 11), targetAmount |-> 5000,
                        achievedAmount |-> 4000, achievementRate |-> 80] >>
  /\ store["A"].targetAmount = 5000
  /\ store["A"].achievedAmount = 0
  /\ store["A"].achievementRate = 0
  /\ store["A"].orders = <<>>
  /\ store["A"].transactions = <<>>

\* The events of kind `what` in a log.
Events(log, what) == {k \in 1..Len(log) : log[k].event \in what}

\* C7: a rolloverTargetsByPeriod batch in which the save of a target failed
\* returns success = true after handling every selected target; the failed
\* target's stored record is as it was read and is counted in errors, and
\* every target logged as rolled over, before or after it, is stored with its
\* period archived, its window moved on and its accumulator reset.
C7_FailureIsolation ==
  \A p \in Procs :
    LET me == proc[p]
    IN  ( /\ me.pc = "done"
          /\ me.periodType \in PeriodKinds
          /\ Events(me.log, {"saveError"}) # {} )
        => /\ me.result.success = TRUE
           /\ Len(me.log) = Len(me.docs)
           /\ me.result.errors = Cardinality(Events(me.log, {"saveError", "typeError"}))
           /\ \A k \in 1..Len(me.log) :
                LET read   == me.docs[k]
                    stored == store[read._id]
                IN  /\ me.log[k].id = read._id
                    /\ me.log[k].event = "saveError" => stored = read
                    /\ me.log[k].event = "rolledOver"
                       => /\ DateLt(read.currentPeriodEnd, stored.currentPeriodEnd)
                          /\ HasPeriod(stored.historicalPerformance,
                                       getCurrentPeriodString(read))
                          /\ stored.achievedAmount = 0

\* A batch over A and B in which the save of A failed and B was rolled over.
C7_Witness ==
  /\ proc[1].pc = "done"
  /\ proc[1].log = << [id |-> "A", event |-> "saveError"],
                      [id |-> "B", event |-> "rolledOver"] >>
  /\ Len(History("A")) = 0
  /\ Len(History("B")) = 1

\* C8: in every successful result of rolloverTargetsByPeriod each selected
\* target is counted in exactly one of rolledOver, skipped and errors, and
\* rolledOver is the number of targets whose advanced state was saved, also
\* when the populated salesAgent of a target is null.
C8_BatchTally ==
  \A p \in Procs :
    LET r == proc[p].result
    IN  (proc[p].pc = "done" /\ r.kind = "rollover")
        => /\ r.rolledOver + r.skipped + r.errors = r.totalFound
           /\ r.rolledOver =
                Cardinality(Events(proc[p].log, {"rolledOver", "typeError"}))

\* The history of t holds the label of the period that starts the day after
\* its currentPeriodEnd.
AlreadyAdvanced(t) ==
  \E k \in 1..Len(t.historicalPerformance) :
    t.historicalPerformance[k].period =
      getPeriodString(AddOneDay(t.currentPeriodEnd), t.period)

\* C9: when the history of a selected target already holds the label of the
\* period starting the day after its currentPeriodEnd, the iteration saves
\* nothing, leaves the store as it is, and counts the target in skipped only.
C9_GuardBSkips ==
  [][ \A p \in Procs :
        (InLoop(p) /\ proc'[p] # proc[p] /\ AlreadyAdvanced(Current(p)))
        => /\ store' = store
           /\ proc'[p].skippedCount = proc[p].skippedCount + 1
           /\ proc'[p].rolledOverCount = proc[p].rolledOverCount
           /\ proc'[p].errorCount = proc[p].errorCount
           /\ proc'[p].i = proc[p].i + 1 ]_vars

\* An invocation has skipped a target.
C9_Witness ==
  \E p \in Procs : Events(proc[p].log, {"skipped"}) # {}

\* C10: an iteration of rolloverTargetsByPeriod(K) changes no stored target
\* but the one it handles, and that one is stored with isRecurring = true,
\* status = active, period = K and currentPeriodEnd < now.
C10_SelectionFrame ==
  [][ \A p \in Procs :
        (InLoop(p) /\ proc'[p] # proc[p])
        => \A id \in Ids :
             store'[id] # store[id]
             => /\ id = Current(p)._id
                /\ store[id].isRecurring = TRUE
                /\ store[id].status = "active"
                /\ store[id].period = proc[p].periodType
                /\ DateLt(store[id].currentPeriodEnd, proc[p].now) ]_vars

\* A batch has rolled B over and left the paused target A of the same kind,
\* whose period has ended too, as it was created.
C10_Witness ==
  /\ store["A"].status = "paused"
  /\ store["A"].period = store["B"].period
  /\ DateLt(store["A"].currentPeriodEnd, Now)
  /\ store["A"].lastRecalculated = ClockDate(0)
  /\ Len(History("A")) = 0
  /\ Len(History("B")) = 1
  /\ proc[1].pc = "done"
  /\ proc[1].result.rolledOver = 1

\* The condition of the expiry sweep on a stored target, at instant `now`.
ExpiryDue(t, now) ==
  /\ t.status = "active"
  /\ t.isRecurring = FALSE
  /\ DateKey(t.currentPeriodEnd) < DateKey(now)

\* C11: while an invocation of updateExpiredTargets is in flight, a stored
\* target changes only if it was active, non-recurring and past its
\* currentPeriodEnd, and then only its status changes, to expired; and when
\* the sweep has returned its count, every target it had found is stored as
\* it was found but for status = expired, and no stored target is still
\* active, non-recurring and past its currentPeriodEnd.
C11_ExpirySweep ==
  [][ \A p \in Procs :
        /\ proc[p].pc = "expire" =>
             \A id \in Ids :
               store'[id] # store[id] =>
                 /\ ExpiryDue(store[id], proc[p].now)
                 /\ store'[id] = [store[id] EXCEPT !.status = "expired"]
        /\ (proc[p].pc = "done" /\ proc[p].result.kind = "expire") =>
             /\ proc[p].result.updatedCount = Len(proc[p].docs)
             /\ \A k \in 1..Len(proc[p].docs) :
                  store[proc[p].docs[k]._id] =
                    [proc[p].docs[k] EXCEPT !.status = "expired"]
             /\ \A id \in Ids : ~ExpiryDue(store[id], proc[p].now) ]_vars

\* A sweep has returned after expiring both targets, which keep their
\* accumulators, window and empty history.
C11_Witness ==
  /\ \E p \in Procs :
       /\ proc[p].pc = "done"
       /\ proc[p].result.kind = "expire"
       /\ proc[p].result.updatedCount = 2
  /\ \A id \in Ids :
       /\ store[id].status = "expired"
       /\ store[id].achievedAmount = 4000
       /\ store[id].orders = <<101>>
       /\ History(id) = <<>>

\* C12: in every step, a recurring active target stays active; a
\* non-recurring target keeps its history and its window; a status that
\* changes becomes expired, on a non-recurring target; and no target changes
\* its isRecurring flag.
C12_Lifecycle ==
  [][ \A id \in Ids :
        LET t == store[id]
            u == store'[id]
        IN  /\ (t.isRecurring /\ t.status = "active") => u.status = "active"
            /\ ~t.isRecurring =>
                 /\ u.historicalPerformance = t.historicalPerformance
                 /\ u.currentPeriodStart = t.currentPeriodStart
                 /\ u.currentPeriodEnd = t.currentPeriodEnd
            /\ u.status # t.status =>
                 (u.status = "expired" /\ ~t.isRecurring)
            /\ u.isRecurring = t.isRecurring ]_vars

\* A non-recurring target expired with no history next to a recurring one
\* that is active after two rollovers.
C12_Witness ==
  /\ store["A"].isRecurring = FALSE
  /\ store["A"].status = "expired"
  /\ History("A") = <<>>
  /\ store["B"].isRecurring = TRUE
  /\ store["B"].status = "active"
  /\ Len(History("B")) >= 2

\* C14: every stored target's currentPeriodStart is not later than its
\* currentPeriodEnd and its window is exactly one calendar month, quarter or
\* year, as its period kind says, from its creation with the schema's
\* defaults on and after any rollovers.
C14_WindowAligned ==
  \A id \in Ids :
    /\ DateKey(store[id].currentPeriodStart) <= DateKey(store[id].currentPeriodEnd)
    /\ CalendarAligned(store[id])

\* The batch of kind number p of triggerImmediateRollover still has reads or
\* saves to do.
InFlight(p) == proc[p].pc = "rollover"

\* C15: during triggerImmediateRollover at most one of the three batches is
\* in flight: while the monthly batch is in flight the quarterly and yearly
\* ones have not started, and while the quarterly one is in flight the
\* yearly one has not started.
C15_TriggerSequential ==
  trigger = "running" =>
    \A p, q \in Procs : (p < q /\ InFlight(p)) => proc[q].pc = "idle"

\* C13: every stored target's achievementRate is achievedAmount /
\* targetAmount * 100 when its targetAmount is positive and 0 when its
\* targetAmount is 0, after rollovers, expiry sweeps, recorded achievements
\* and edits of the target amount alike.
C13_DerivedRate ==
  \A id \in Ids :
    store[id].achievementRate =
      IF store[id].targetAmount > 0
      THEN (store[id].achievedAmount * 100) \div store[id].targetAmount
      ELSE 0

SomeJobFires ==
  \/ \E n \in TimerNames : n \in sched'.fired.map /\ n \notin sched.fired.map
  \/ \E n \in TimerNames :
       /\ sched'.fired.orphans[n] > sched.fired.orphans[n]
       /\ sched'.orphans = sched.orphans

\* C16: once stopScheduler has returned, and until initializeScheduler is
\* called again, no cron job fires, however often initializeScheduler and
\* stopScheduler were called before.
C16_StopCancelsAll ==
  [][ sched.last.op = "stop" => ~SomeJobFires ]_vars

\* C17: after an initializeScheduler call in which the registration of one
\* timer threw, every other timer is in the map and started.
C17_PartialStart ==
  sched.last.op = "init" =>
    \A n \in TimerNames : n # sched.last.threw => sched.scheduledJobs[n]

\* The invocation was cut off by process.exit while it waited for the save
\* of a due target in a rollover batch.
KilledAtSave(p) ==
  /\ proc[p].pc = "killed"
  /\ proc[p].result.kind = "none"
  /\ proc[p].periodType \in PeriodKinds
  /\ proc[p].i <= Len(proc[p].docs)
  /\ ~NextPeriodAlreadyExists(proc[p].docs[proc[p].i], proc[p].periodType)

\* The stored target is the document read, rolled over in full.
FullyRolledOver(read) ==
  /\ store[read._id].currentPeriodEnd # read.currentPeriodEnd
  /\ store[read._id].achievedAmount = 0
  /\ store[read._id].orders = <<>>
  /\ HasPeriod(store[read._id].historicalPerformance, getCurrentPeriodString(read))

\* C18: when a stop, the shutdown handlers' included, lands while a rollover
\* batch waits for the save of its current target, the batch still completes
\* that target: it is stored rolled over in full (history entry, new window,
\* accumulators reset).
C18_StopKeepsInFlightWork ==
  \A p \in Procs :
    KilledAtSave(p) => FullyRolledOver(proc[p].docs[proc[p].i])

\* An invocation ends its call without a result: the step leaves it with an
\* error logged or a failed result.
EngineFails(p) ==
  \/ /\ proc'[p].pc = "done"
     /\ proc'[p].result.kind = "failed"
     /\ proc[p].pc # "done"
  \/ /\ Len(proc'[p].log) > Len(proc[p].log)
     /\ proc'[p].log[Len(proc'[p].log)].event \in {"saveError", "typeError"}

\* C19: an invocation made by a timer never ends as a rejected promise: a
\* failed query or a failed save of the sweep ends it with success = false,
\* and a step in which the engine fails leaves every timer as it was, in the
\* map and started.
C19_FireAndForget ==
  [][ \A p \in Procs :
        /\ proc'[p].pc \in {"idle", "rollover", "expire", "done", "killed"}
        /\ (proc'[p].pc = "done" /\ proc'[p].result.kind = "failed")
             => proc'[p].result.success = FALSE
        /\ EngineFails(p) =>
             /\ sched'.scheduledJobs = sched.scheduledJobs
             /\ sched'.orphans = sched.orphans ]_vars

\* On 1 January the monthly timer has fired and the daily sweep, fired after
\* it, has failed at the save of the non-recurring target; both timers are
\* in the map as before.
C19_Witness ==
  /\ clock = 4
  /\ proc[1].pc = "done"
  /\ proc[1].result.kind = "failed"
  /\ proc[1].log = <<[id |-> "B", event |-> "saveError"]>>
  /\ sched.fired.map = {"monthly-rollover", "daily-check"}
  /\ sched.scheduledJobs["monthly-rollover"]
  /\ sched.scheduledJobs["daily-check"]
  /\ Len(History("A")) = 1

\* C22: for every document an invocation of rolloverTargetsByPeriod(K) has
\* selected, the scheduler's getPeriodString(currentPeriodStart, K) is the
\* record's getCurrentPeriodString(), a label made of the year and the month
\* or quarter of currentPeriodStart alone, whatever now is.
C22_LabelsAgree ==
  \A p \in Procs :
    proc[p].pc = "rollover" =>
      \A k \in 1..Len(proc[p].docs) :
        LET t == proc[p].docs[k]
        IN  /\ getPeriodString(t.currentPeriodStart, proc[p].periodType)
                 = getCurrentPeriodString(t)
            /\ getCurrentPeriodString(t).y = t.currentPeriodStart.y
            /\ getCurrentPeriodString(t).n =
                 CASE t.period = "monthly"   -> t.currentPeriodStart.m
                   [] t.period = "quarterly" -> ((t.currentPeriodStart.m + 2) \div 3)
                   [] t.period = "yearly"    -> 0

\* Batches of each kind hold a selected target at a late clock point: a
\* monthly one in its second period and a quarterly one.
C22_Witness ==
  /\ trigger = "running"
  /\ clock = 5
  /\ Len(proc[1].docs) = 1
  /\ proc[1].docs[1].currentPeriodStart.m = 12
  /\ Len(proc[2].docs) = 1
  /\ proc[2].pc = "rollover"
  /\ proc[1].pc = "rollover"

\* The target is stored as the invocation read it, and its history holds the
\* label of its current window but not that of the window after it.
GuardACase(t) ==
  /\ store[t._id] = t
  /\ \E k \in 1..Len(t.historicalPerformance) :
       t.historicalPerformance[k].period = getCurrentPeriodString(t)
  /\ ~AlreadyAdvanced(t)

C24_GuardBLabelIsNextWindow ==
  [][ \A p \in Procs :
        (RolloverSaved(p) /\ store[Current(p)._id] = Current(p))
        => getNextPeriodString(Current(p).currentPeriodEnd, proc[p].periodType)
             = getPeriodString(store'[Current(p)._id].currentPeriodStart,
                               proc[p].periodType) ]_vars

\* Labels of one kind in chronological order.
LabelKey(label) == label.y * 100 + label.n

\* C25: every rollover that is saved stores a later currentPeriodStart, a
\* later currentPeriodEnd and a later period label than the target had, and
\* the labels of every stored history are in strictly increasing order.
C25_StrictProgress ==
  [][ /\ \A p \in Procs :
           (RolloverSaved(p) /\ store[Current(p)._id] = Current(p))
           => LET old == Current(p)
                  new == store'[Current(p)._id]
              IN  /\ DateKey(new.currentPeriodStart) > DateKey(old.currentPeriodStart)
                  /\ DateKey(new.currentPeriodEnd) > DateKey(old.currentPeriodEnd)
                  /\ LabelKey(getCurrentPeriodString(new))
                       > LabelKey(getCurrentPeriodString(old))
      /\ \A id \in Ids :
           \A i, j \in 1..Len(History(id)) :
             i < j => LabelKey(History(id)[i].period) < LabelKey(History(id)[j].period) ]_vars

\* C26: in every step, each target's stored history keeps its entries, in
\* their order and with their values, as a prefix of the new history, which
\* is at most one entry longer.
C26_HistoryAppendOnly ==
  [][ \A id \in Ids :
        LET old == store[id].historicalPerformance
            new == store'[id].historicalPerformance
        IN  /\ Len(new) >= Len(old)
            /\ Len(new) <= Len(old) + 1
            /\ SubSeq(new, 1, Len(old)) = old ]_vars

\* Two overlapping invocations have both saved the target after a rollover
\* had been saved before: three entries, each appended to the ones before.
C26_Witness ==
  /\ Len(History("A")) = 3
  /\ \A p \in Overlapping :
       \E k \in 1..Len(proc[p].log) : proc[p].log[k] = [id |-> "A", event |-> "rolledOver"]
  /\ store["B"].status = "expired"

\* C27: no invocation, run alone or overlapping another, ever examines a
\* target whose history holds the label of the period after its current
\* one, and every batch's skipped count is 0.
C27_GuardBUnreachable ==
  \A p \in Procs :
    /\ proc[p].skippedCount = 0
    /\ proc[p].result.skipped = 0
    /\ InLoop(p) => ~AlreadyAdvanced(Current(p))

\* C28: catching up takes one successful invocation and one new history
\* entry for each period that has ended: every rollover that is saved
\* lengthens the target's history by one entry and stores a later
\* currentPeriodEnd, until currentPeriodEnd is no longer before now.
C28_OneEntryPerCatchUpStep ==
  [][ \A p \in Procs :
        (RolloverSaved(p) /\ store[Current(p)._id] = Current(p))
        => LET old == Current(p)
               new == store'[Current(p)._id]
           IN  /\ DateKey(old.currentPeriodEnd) < DateKey(proc[p].now)
               /\ DateKey(new.currentPeriodEnd) > DateKey(old.currentPeriodEnd)
               /\ Len(new.historicalPerformance) = Len(old.historicalPerformance) + 1 ]_vars

\* C29: a sweep in which the save of a target has failed has returned
\* {success: false} at that target: the targets it had saved before are
\* stored expired, and the failed target and those after it in the order of
\* the query are stored active.
C29_SweepStopsAtFailure ==
  \A p \in Procs :
    (proc[p].periodType = "none" /\ Events(proc[p].log, {"saveError"}) # {})
    => /\ proc[p].pc = "done"
       /\ proc[p].result.kind = "failed"
       /\ proc[p].result.success = FALSE
       /\ Events(proc[p].log, {"saveError"}) = {Len(proc[p].log)}
       /\ proc[p].i = Len(proc[p].log)
       /\ \A k \in 1..Len(proc[p].docs) :
            store[proc[p].docs[k]._id].status =
              IF k < proc[p].i THEN "expired" ELSE "active"

\* A sweep over two expired targets in which the save of the first failed:
\* both are stored active, the second never handled.
C29_Witness ==
  /\ proc[1].pc = "done"
  /\ proc[1].result.kind = "failed"
  /\ Len(proc[1].docs) = 2
  /\ proc[1].log = <<[id |-> "A", event |-> "saveError"]>>
  /\ store["A"].status = "active"
  /\ store["B"].status = "active"

\* C21: when a rollover archives a period and is saved, whatever the feed
\* recorded between the rollover's query and its save, the amount stored
\* just before the save is counted once: in the new history entry or in the
\* achievedAmount of the new period.
C21_NoLostAchievement ==
  [][ \A p \in Procs :
        RolloverSaved(p)
        => LET old == store[Current(p)._id]
               new == store'[Current(p)._id]
           IN  Len(new.historicalPerformance) = Len(old.historicalPerformance) + 1
               => LastEntry(new.historicalPerformance).achievedAmount
                    + new.achievedAmount = old.achievedAmount ]_vars

\* The fields of a target that a rollover leaves as they are.
RolloverFrame ==
  {"_id", "cardCode", "cardName", "salesAgent", "targetAmount", "period",
   "isRecurring", "status"}

\* C30: a saved rollover of a target leaves its stored cardCode, cardName,
\* salesAgent, targetAmount, period, isRecurring and status unchanged, and
\* after it the stored deadline equals the stored currentPeriodEnd.
C30_RolloverFrame ==
  [][ \A p \in Procs :
        RolloverSaved(p)
        => LET old == store[Current(p)._id]
               new == store'[Current(p)._id]
           IN  /\ \A f \in RolloverFrame : new[f] = old[f]
               /\ new.deadline = new.currentPeriodEnd ]_vars

\* Target A after its first rollover: customer, agent, amount, kind and
\* status as created, window and deadline moved to December 2023.
C30_Witness ==
  /\ Len(History("A")) = 1
  /\ store["A"].cardCode = "A"
  /\ store["A"].cardName = "customer"
  /\ store["A"].salesAgent = "agent"
  /\ store["A"].targetAmount = 5000
  /\ store["A"].period = "monthly"
  /\ store["A"].isRecurring
  /\ store["A"].status = "active"
  /\ store["A"].currentPeriodEnd = [y |-> 2023, m |-> 12, d |-> 31, t |-> 0]
  /\ store["A"].deadline = store["A"].currentPeriodEnd

====
